---- MODULE Spec2Model ----
(***************************************************************************)
(* A model of the AIVory Go agent (aivorynet/agent-go):                    *)
(*   - transport.Connection: the connect loop, the message loop, the read  *)
(*     goroutine, send/sendDirect and Disconnect;                          *)
(*   - goroutines that panic under a deferred agent.CapturePanic, and      *)
(*     agent.Stop;                                                         *)
(*   - breakpoint.Manager: SetBreakpoint, RemoveBreakpoint, Hit and the    *)
(*     shared rate limiter;                                                *)
(*   - capture: captureValue's walk of a value, calculateFingerprint and   *)
(*     CaptureError.                                                       *)
(* Goroutines interleave at the granularity of their accesses to shared    *)
(* memory, locks and channels.                                             *)
(***************************************************************************)
EXTENDS Integers, Sequences, FiniteSets, TLC

(***************************************************************************)
(* Bounds of the model.                                                    *)
(***************************************************************************)
\* Capacity of the messageQueue channel.  NewConnection makes it with
\* capacity 100; the model runs the same channel operations on a small one.
QueueCap == 2
\* Number of outbound messages (exceptions and heartbeats) ever marshalled.
MaxMsgs == 4
\* Spec: the longest run of consecutive dial failures the network produces
\* (SpecBackoff leaves the network free to fail every dial).
MaxConsecutiveFailures == 1

\* The rate limiter's cap on accepted triggers per window.  The source sets
\* const maxCapturesPerSecond = 50; the model runs the same limiter with a
\* small cap.
maxCapturesPerSecond == 2
\* Clock ticks per second, and the last tick of the clock.
TicksPerSecond == 2
MaxTime == 2
\* Number of SetBreakpoint calls, and of payloads handed to the sender.
MaxObjs == 2
MaxForwards == 3
\* captureValue: the number of heap objects a captured value is made of, and
\* the largest maxDepth a capture is configured with.
NumObjs == 2
MaxDepthBound == 1
\* calculateFingerprint: the number of non-native frames that enter the key.
\* The source stops at 5 (if added >= 5 { break }); the model runs the same
\* loop with a small limit.
FingerprintFrames == 2

(***************************************************************************)
(* Program constants.                                                      *)
(***************************************************************************)
\* SetBreakpoint: maxHits is clamped to [1, 50].
MinMaxHits == 1
MaxMaxHits == 50
\* NewConnection: maxReconnectAttempts: 10
DefaultMaxReconnectAttempts == 10
\* NewConnection: reconnectDelay: time.Second (in seconds)
reconnectDelay == 1
\* Connect: the cap on the backoff delay, 60*time.Second (in seconds)
MaxDelay == 60

\* The capture goroutines; the message loop is a second, concurrent sender.
Callers == {"g1"}
Loop == "ml"
Procs == Callers \cup {Loop}

NilConn == "nil"
Sock == "sock"

NoMsg == [id |-> 0, type |-> "none"]
NoValue == "none"
\* Values a goroutine can panic with: a plain error, and an error whose
\* Unwrap() []error holds a nil entry.
PlainError == "plain_error"
NilChainError == "nil_chain_error"
ErrorValues == {PlainError, NilChainError}
\* The run-time panic raised by a nil dereference.
RuntimeError == "runtime_error"

\* The inbound envelopes the read goroutine distinguishes.
FatalCodes == {"auth_error", "invalid_api_key"}
Inbound == {"registered", "other"} \cup FatalCodes

VARIABLES
    \* Connection fields
    conn, connected, authenticated, reconnectAttempts, maxReconnectAttempts,
    messageQueue, done,
    \* the socket behind conn: open, or closed by Disconnect; the type of the
    \* last message written on it; whether "registered" has been received on it
    sockOpen, lastWritten, acked,
    \* Connect / runMessageLoop
    connPc, delay, mlMsg,
    \* the read goroutine of runMessageLoop
    readPc, readDone,
    \* send: one activation per capture goroutine and one for the message loop
    spc, smsg, sconn,
    \* capture goroutines: the recovered value and what left CapturePanic
    rec, out,
    \* agent
    globalAgent, started, stopPc,
    \* bookkeeping: message ids, a crashed process, history
    nextId, crashed, fatalSeen, consecFails, snap, clean

connVars == <<conn, connected, authenticated, reconnectAttempts, maxReconnectAttempts,
              messageQueue, done, sockOpen, lastWritten, acked, connPc, delay, mlMsg,
              readPc, readDone, spc, smsg, sconn, rec, out,
              globalAgent, started, stopPc,
              nextId, crashed, fatalSeen, consecFails, snap, clean>>

VARIABLES
    \* Manager fields: breakpoints maps an id to its *BreakpointInfo (0: no
    \* entry); bpID, bpMaxHits and bpHitCount are the fields of the objects
    breakpoints, bpID, bpMaxHits, bpHitCount, nextRef,
    captureCount, captureWindowStart,
    \* the clock
    now,
    \* Hit, one activation per triggering goroutine: position, the bp it holds,
    \* the captureCount it loaded, hitCount, and rateLimitOk's reading of the clock
    hpc, hbp, hcnt, hhit, hnow,
    \* hreset[h]: this call of rateLimitOk found the window a second old and
    \* reset it ("reset"), after the window had rejected a trigger ("unblock");
    \* limited: the current window has rejected a trigger
    hreset, limited,
    \* bpAsked[r]: the maxHits argument object r was created with;
    \* lastCmd: what the last HandleCommand call was ("no_map": its payload
    \* was no map; "set_no_id": a set without a string id; "set_new" /
    \* "set_replace": a set with a string id that was not / was registered;
    \* "remove"; "other")
    bpAsked, lastCmd,
    \* what sender.SendBreakpointHit received
    sent

bpVars == <<breakpoints, bpID, bpMaxHits, bpHitCount, nextRef, captureCount,
            captureWindowStart, now, hpc, hbp, hcnt, hhit, hnow, hreset, limited,
            bpAsked, lastCmd, sent>>

VARIABLES
    \* captureValue: the value being captured (cvHeap[o] is object o; cvRoot is
    \* the value handed to the first call, 0 for a nil interface), the
    \* configured maxDepth, the calls still to be made, the Variable nodes
    \* returned so far, and the parity of the number of calls made
    cvHeap, cvRoot, cvMaxDepth, cvStack, cvNodes, cvCalls

VARIABLES
    \* calculateFingerprint(err, stackTrace): the dynamic type of err
    \* (NilError for a nil error), the stack trace, and the result
    fpType, fpStack, fpOut

fpVars == <<fpType, fpStack, fpOut>>

VARIABLES
    \* capture.CaptureError(err, maxDepth, ctx): the error, the context map,
    \* the position in the function, the keys of localVariables written so
    \* far, and how the call ended
    ceErr, ceCtx, cePc, ceLocals, ceOut

ceVars == <<ceErr, ceCtx, cePc, ceLocals, ceOut>>

capVars == <<cvHeap, cvRoot, cvMaxDepth, cvStack, cvNodes, cvCalls, fpVars, ceVars>>

vars == <<connVars, bpVars, capVars>>

Min(a, b) == IF a < b THEN a ELSE b

(***************************************************************************)
(* Pure helpers of Connection.                                             *)
(***************************************************************************)
\* Connect: delay := reconnectDelay * 1<<(attempts-1), capped at 60s.
\* (BackoffUncapped: the doubling alone, without the 60s cap.)
BackoffUncapped(attempts) == reconnectDelay * 2^(attempts - 1)
Backoff(attempts) == Min(reconnectDelay * 2^(attempts - 1), MaxDelay)

\* Connect: if c.reconnectAttempts > c.maxReconnectAttempts { return }
\* (ExceedsCeilingOffByOne: the test that allows one more attempt.)
ExceedsCeilingOffByOne(attempts, ceiling) == attempts > ceiling + 1
ExceedsCeiling(attempts, ceiling) == attempts > ceiling

\* A buffered channel: a send succeeds at once iff the buffer has room.
ChanHasRoom(q) == Len(q) < QueueCap
\* send: "Queue full, drop oldest": a receive takes the head of the buffer.
\* (ChanDropNewest: a removal at the tail of the buffer instead.)
ChanDropNewest(q) == IF Len(q) > 0 THEN SubSeq(q, 1, Len(q) - 1) ELSE q
ChanReceive(q) == IF Len(q) > 0 THEN Tail(q) ELSE q

\* (IsConnectedNoAuth: a gate that asks only for the socket.)
IsConnectedNoAuth == connected

\* IsConnected, and the same test in send and runMessageLoop.
IsConnected == connected /\ authenticated

(***************************************************************************)
(* Initial state: after agent.Init (NewConnection, go Connect) or, when no *)
(* API key is configured, with no agent and no connection.                 *)
(***************************************************************************)
InitConn ==
    /\ globalAgent \in BOOLEAN
    /\ started = globalAgent
    /\ conn = NilConn
    /\ connected = FALSE
    /\ authenticated = FALSE
    /\ reconnectAttempts = 0
    /\ maxReconnectAttempts = DefaultMaxReconnectAttempts
    /\ messageQueue = <<>>
    /\ done = FALSE
    /\ sockOpen = FALSE
    /\ lastWritten = "none"
    /\ acked = FALSE
    /\ connPc = IF globalAgent THEN "check" ELSE "none"
    /\ delay = 0
    /\ mlMsg = NoMsg
    /\ readPc = "off"
    /\ readDone = FALSE
    /\ spc = [p \in Procs |-> "idle"]
    /\ smsg = [p \in Procs |-> NoMsg]
    /\ sconn = [p \in Procs |-> FALSE]
    /\ rec = [c \in Callers |-> NoValue]
    /\ out = [c \in Callers |-> NoValue]
    /\ stopPc = "idle"
    /\ nextId = 1
    /\ crashed = FALSE
    /\ fatalSeen = FALSE
    /\ consecFails = 0
    /\ snap = [p \in Procs |-> <<>>]
    /\ clean = [p \in Procs |-> FALSE]

\* Groups of variables left alone.
flagVars == <<conn, connected, authenticated, sockOpen>>
loopVars == <<connPc, delay, mlMsg, reconnectAttempts, consecFails>>
readVars == <<readPc, readDone>>
sendVars == <<spc, smsg, sconn, snap, clean>>
callVars == <<rec, out>>
agentVars == <<globalAgent, started, stopPc>>

\* A queue operation by p ends every other sender's undisturbed run.
Disturb(p) == [r \in Procs |-> IF r = p THEN clean[r] ELSE FALSE]

(***************************************************************************)
(* Connection.send, for a capture goroutine or for the message loop's      *)
(* heartbeat.  spc[p]: "send" -> "try" -> ("drop" -> "push" ->) "ret".     *)
(***************************************************************************)
\* json.Marshal, then the test of connected && authenticated under RLock.
\* A payload that does not marshal is logged and dropped.
SendCheck(p) ==
    /\ ~crashed
    /\ spc[p] = "send"
    /\ \E marshals \in (IF p = Loop THEN {TRUE} ELSE BOOLEAN) :
         IF ~marshals
         THEN /\ spc' = [spc EXCEPT ![p] = "ret"]
              /\ smsg' = [smsg EXCEPT ![p] = NoMsg]
              /\ sconn' = [sconn EXCEPT ![p] = FALSE]
         ELSE /\ sconn' = [sconn EXCEPT ![p] = IsConnected]
              /\ spc' = [spc EXCEPT ![p] = IF IsConnected THEN "try" ELSE "ret"]
              /\ smsg' = smsg
    /\ UNCHANGED <<lastWritten, acked, flagVars, loopVars, readVars, callVars, agentVars, snap, clean,
                   maxReconnectAttempts, messageQueue, done,
                   nextId, crashed, fatalSeen>>
    /\ UNCHANGED <<bpVars, capVars>>

\* select { case c.messageQueue <- data: ; default: ... }
SendTry(p) ==
    /\ ~crashed
    /\ spc[p] = "try"
    /\ IF ChanHasRoom(messageQueue)
       THEN /\ messageQueue' = Append(messageQueue, smsg[p])
            /\ spc' = [spc EXCEPT ![p] = "ret"]
            /\ clean' = Disturb(p)
            /\ snap' = snap
       ELSE /\ messageQueue' = messageQueue
            /\ spc' = [spc EXCEPT ![p] = "drop"]
            /\ snap' = [snap EXCEPT ![p] = messageQueue]
            /\ clean' = [clean EXCEPT ![p] = TRUE]
    /\ UNCHANGED <<lastWritten, acked, flagVars, loopVars, readVars, callVars, agentVars, smsg, sconn,
                   maxReconnectAttempts, done, nextId, crashed, fatalSeen>>
    /\ UNCHANGED <<bpVars, capVars>>

\* Queue full, drop oldest: select { case <-c.messageQueue: ; default: }
SendDrop(p) ==
    /\ ~crashed
    /\ spc[p] = "drop"
    /\ messageQueue' = ChanReceive(messageQueue)
    /\ spc' = [spc EXCEPT ![p] = "push"]
    /\ clean' = Disturb(p)
    /\ UNCHANGED <<lastWritten, acked, flagVars, loopVars, readVars, callVars, agentVars, smsg, sconn, snap,
                   maxReconnectAttempts, done, nextId, crashed, fatalSeen>>
    /\ UNCHANGED <<bpVars, capVars>>

\* c.messageQueue <- data: a plain channel send, which waits for room.
SendPush(p) ==
    /\ ~crashed
    /\ spc[p] = "push"
    /\ ChanHasRoom(messageQueue)
    /\ messageQueue' = Append(messageQueue, smsg[p])
    /\ spc' = [spc EXCEPT ![p] = "ret"]
    /\ clean' = Disturb(p)
    /\ UNCHANGED <<lastWritten, acked, flagVars, loopVars, readVars, callVars, agentVars, smsg, sconn, snap,
                   maxReconnectAttempts, done, nextId, crashed, fatalSeen>>
    /\ UNCHANGED <<bpVars, capVars>>

(***************************************************************************)
(* Connection.Disconnect, in two steps: close(c.done), then the section    *)
(* under c.mu.  Closing a closed channel panics; nothing recovers it.      *)
(***************************************************************************)
DisconnectCloseDone ==
    IF done
    THEN crashed' = TRUE /\ done' = done
    ELSE done' = TRUE /\ crashed' = crashed

DisconnectLocked ==
    /\ conn' = NilConn
    /\ sockOpen' = IF conn # NilConn THEN FALSE ELSE sockOpen
    /\ connected' = FALSE
    /\ authenticated' = FALSE

(***************************************************************************)
(* Connection.Connect: the connect loop.                                   *)
(* connPc: "check" -> "dial" -> ("sleep" -> "check" | "exit" |             *)
(*         "setconn" -> "register" -> "loop" ...)                          *)
(***************************************************************************)
\* select { case <-ctx.Done(): return; case <-c.done: return; default: }
\* with ctx = context.Background().  Passing it begins a connection attempt.
ConnCheck ==
    /\ ~crashed
    /\ connPc = "check"
    /\ connPc' = IF done THEN "exit" ELSE "dial"
    /\ UNCHANGED <<lastWritten, acked, flagVars, readVars, sendVars, callVars, agentVars, delay, mlMsg,
                   reconnectAttempts, consecFails, maxReconnectAttempts, messageQueue,
                   done, nextId, crashed, fatalSeen>>
    /\ UNCHANGED <<bpVars, capVars>>

\* connect() returns the dial error: count it, give up or back off.
ConnDialFail ==
    /\ ~crashed
    /\ connPc = "dial"
    /\ reconnectAttempts' = reconnectAttempts + 1
    /\ consecFails' = consecFails + 1
    /\ IF ExceedsCeiling(reconnectAttempts', maxReconnectAttempts)
       THEN connPc' = "exit" /\ delay' = delay
       ELSE connPc' = "sleep" /\ delay' = Backoff(reconnectAttempts')
    /\ UNCHANGED <<lastWritten, acked, flagVars, readVars, sendVars, callVars, agentVars, mlMsg,
                   maxReconnectAttempts, messageQueue, done, nextId, crashed,
                   fatalSeen>>
    /\ UNCHANGED <<bpVars, capVars>>

\* time.Sleep(delay); continue
ConnSleep ==
    /\ ~crashed
    /\ connPc = "sleep"
    /\ connPc' = "check"
    /\ UNCHANGED <<lastWritten, acked, flagVars, readVars, sendVars, callVars, agentVars, delay, mlMsg,
                   reconnectAttempts, consecFails, maxReconnectAttempts, messageQueue,
                   done, nextId, crashed, fatalSeen>>
    /\ UNCHANGED <<bpVars, capVars>>

\* websocket.DefaultDialer.Dial succeeded.
ConnDialOk ==
    /\ ~crashed
    /\ connPc = "dial"
    /\ connPc' = "setconn"
    /\ consecFails' = 0
    /\ UNCHANGED <<lastWritten, acked, flagVars, readVars, sendVars, callVars, agentVars, delay, mlMsg,
                   reconnectAttempts, maxReconnectAttempts, messageQueue,
                   done, nextId, crashed, fatalSeen>>
    /\ UNCHANGED <<bpVars, capVars>>

\* connect(): c.mu.Lock(); c.conn = conn; c.connected = true; c.mu.Unlock()
ConnSetConn ==
    /\ ~crashed
    /\ connPc = "setconn"
    /\ conn' = Sock
    /\ connected' = TRUE
    /\ sockOpen' = TRUE
    /\ lastWritten' = "none"
    /\ acked' = FALSE
    /\ connPc' = "register"
    /\ UNCHANGED <<authenticated, readVars, sendVars, callVars, agentVars, delay, mlMsg,
                   reconnectAttempts, consecFails, maxReconnectAttempts, messageQueue,
                   done, nextId, crashed, fatalSeen>>
    /\ UNCHANGED <<bpVars, capVars>>

\* authenticate() -> sendDirect("register"): written on c.conn if it is not nil;
\* then Connect resets reconnectAttempts and runMessageLoop starts its ticker
\* and its read goroutine.
ConnRegister ==
    /\ ~crashed
    /\ connPc = "register"
    /\ lastWritten' = IF conn # NilConn THEN "register" ELSE lastWritten
    /\ acked' = acked
    /\ reconnectAttempts' = 0
    /\ readPc' = "load"
    /\ readDone' = FALSE
    /\ connPc' = "loop"
    /\ UNCHANGED <<flagVars, sendVars, callVars, agentVars, delay, mlMsg,
                   consecFails, maxReconnectAttempts, messageQueue,
                   done, nextId, crashed, fatalSeen>>
    /\ UNCHANGED <<bpVars, capVars>>

(***************************************************************************)
(* runMessageLoop: the select of the main loop.                            *)
(***************************************************************************)
\* case <-c.done: return
MlDone ==
    /\ ~crashed
    /\ connPc = "loop"
    /\ done
    /\ connPc' = "check"
    /\ UNCHANGED <<lastWritten, acked, flagVars, readVars, sendVars, callVars, agentVars, delay, mlMsg,
                   reconnectAttempts, consecFails, maxReconnectAttempts, messageQueue,
                   done, nextId, crashed, fatalSeen>>
    /\ UNCHANGED <<bpVars, capVars>>

\* case <-readDone: connected = false; authenticated = false; return
MlReadDone ==
    /\ ~crashed
    /\ connPc = "loop"
    /\ readDone
    /\ connected' = FALSE
    /\ authenticated' = FALSE
    /\ connPc' = "check"
    /\ UNCHANGED <<lastWritten, acked, conn, sockOpen, readVars, sendVars, callVars, agentVars, delay, mlMsg,
                   reconnectAttempts, consecFails, maxReconnectAttempts, messageQueue,
                   done, nextId, crashed, fatalSeen>>
    /\ UNCHANGED <<bpVars, capVars>>

\* (HeartbeatDueConnected: a tick that looks at the socket flag instead.)
HeartbeatDueConnected == connected

\* The test made on a tick: if c.authenticated { ... }, read without the lock.
HeartbeatDue == authenticated

\* case <-heartbeatTicker.C: if c.authenticated { c.send("heartbeat", ...) }
MlHeartbeat ==
    /\ ~crashed
    /\ connPc = "loop"
    /\ HeartbeatDue
    /\ nextId <= MaxMsgs
    /\ connPc' = "hb"
    /\ spc' = [spc EXCEPT ![Loop] = "send"]
    /\ smsg' = [smsg EXCEPT ![Loop] = [id |-> nextId, type |-> "heartbeat"]]
    /\ nextId' = nextId + 1
    /\ UNCHANGED <<lastWritten, acked, flagVars, readVars, sconn, snap, clean, callVars, agentVars, delay,
                   mlMsg, reconnectAttempts, consecFails, maxReconnectAttempts,
                   messageQueue, done, crashed, fatalSeen>>
    /\ UNCHANGED <<bpVars, capVars>>

\* c.send returned to the loop.
MlHeartbeatSent ==
    /\ ~crashed
    /\ connPc = "hb"
    /\ spc[Loop] = "ret"
    /\ connPc' = "loop"
    /\ spc' = [spc EXCEPT ![Loop] = "idle"]
    /\ smsg' = [smsg EXCEPT ![Loop] = NoMsg]
    /\ sconn' = [sconn EXCEPT ![Loop] = FALSE]
    /\ snap' = [snap EXCEPT ![Loop] = <<>>]
    /\ clean' = [clean EXCEPT ![Loop] = FALSE]
    /\ UNCHANGED <<lastWritten, acked, flagVars, readVars, callVars, agentVars, delay,
                   mlMsg, reconnectAttempts, consecFails, maxReconnectAttempts,
                   messageQueue, done, nextId, crashed, fatalSeen>>
    /\ UNCHANGED <<bpVars, capVars>>

\* case msg := <-c.messageQueue:
MlDequeue ==
    /\ ~crashed
    /\ connPc = "loop"
    /\ Len(messageQueue) > 0
    /\ mlMsg' = Head(messageQueue)
    /\ messageQueue' = Tail(messageQueue)
    /\ clean' = Disturb(Loop)
    /\ connPc' = "write"
    /\ UNCHANGED <<lastWritten, acked, flagVars, readVars, spc, smsg, sconn, snap, callVars, agentVars, delay,
                   reconnectAttempts, consecFails, maxReconnectAttempts,
                   done, nextId, crashed, fatalSeen>>
    /\ UNCHANGED <<bpVars, capVars>>

\* c.mu.RLock(); if c.conn != nil && c.connected && c.authenticated {
\*     c.conn.WriteMessage(...) }; c.mu.RUnlock()
MlWrite ==
    /\ ~crashed
    /\ connPc = "write"
    /\ lastWritten' = IF conn # NilConn /\ IsConnected THEN mlMsg.type ELSE lastWritten
    /\ acked' = acked
    /\ mlMsg' = NoMsg
    /\ connPc' = "loop"
    /\ UNCHANGED <<flagVars, readVars, sendVars, callVars, agentVars, delay,
                   reconnectAttempts, consecFails, maxReconnectAttempts, messageQueue,
                   done, nextId, crashed, fatalSeen>>
    /\ UNCHANGED <<bpVars, capVars>>

(***************************************************************************)
(* The read goroutine of runMessageLoop.                                   *)
(* readPc: "load" -> "recv" (-> "reg" | "disc1" -> "disc2") -> "load",     *)
(*         or "off" once it returned and closed readDone.                  *)
(***************************************************************************)
\* c.conn.ReadMessage(): c.conn is read without the lock; on a nil *Conn the
\* call dereferences nil and the goroutine panics, which ends the process.
ReadLoad ==
    /\ ~crashed
    /\ readPc = "load"
    /\ IF conn = NilConn
       THEN crashed' = TRUE /\ readPc' = readPc
       ELSE crashed' = crashed /\ readPc' = "recv"
    /\ UNCHANGED <<lastWritten, acked, flagVars, loopVars, readDone, sendVars, callVars, agentVars,
                   maxReconnectAttempts, messageQueue, done, nextId, fatalSeen>>
    /\ UNCHANGED <<bpVars, capVars>>

\* (ReadRecvNoDisconnect: a handleError that zeroes the ceiling but leaves
\* the connection up.)
ReadRecvNoDisconnect ==
    /\ ~crashed
    /\ readPc = "recv"
    /\ \E ev \in (IF sockOpen THEN Inbound \cup {"fail"} ELSE {"fail"}) :
         /\ readPc' = CASE ev = "fail" -> "off"
                        [] ev = "registered" -> "reg"
                        [] OTHER -> "load"
         /\ readDone' = (readDone \/ ev = "fail")
         /\ fatalSeen' = (fatalSeen \/ ev \in FatalCodes)
         /\ acked' = (acked \/ ev = "registered")
         /\ maxReconnectAttempts' = IF ev \in FatalCodes THEN 0 ELSE maxReconnectAttempts
    /\ UNCHANGED <<lastWritten, flagVars, loopVars, sendVars, callVars, agentVars,
                   messageQueue, done, nextId, crashed>>
    /\ UNCHANGED <<bpVars, capVars>>

\* ReadMessage returns an error (the socket was closed here or by the peer,
\* or the network failed) and the goroutine returns, closing readDone; or it
\* returns an envelope and handleMessage runs: "registered" ->
\* handleRegistered (the next step); "error" -> handleError, which for auth_error /
\* invalid_api_key sets maxReconnectAttempts = 0 and calls Disconnect;
\* anything else is ignored.
ReadRecv ==
    /\ ~crashed
    /\ readPc = "recv"
    /\ \E ev \in (IF sockOpen THEN Inbound \cup {"fail"} ELSE {"fail"}) :
         /\ readPc' = CASE ev = "fail" -> "off"
                        [] ev \in FatalCodes -> "disc1"
                        [] ev = "registered" -> "reg"
                        [] OTHER -> "load"
         /\ readDone' = (readDone \/ ev = "fail")
         /\ fatalSeen' = (fatalSeen \/ ev \in FatalCodes)
         /\ acked' = (acked \/ ev = "registered")
         /\ maxReconnectAttempts' = IF ev \in FatalCodes THEN 0 ELSE maxReconnectAttempts
    /\ UNCHANGED <<lastWritten, flagVars, loopVars, sendVars, callVars, agentVars,
                   messageQueue, done, nextId, crashed>>
    /\ UNCHANGED <<bpVars, capVars>>

\* handleRegistered: c.mu.Lock(); c.authenticated = true; c.mu.Unlock()
ReadRegistered ==
    /\ ~crashed
    /\ readPc = "reg"
    /\ authenticated' = TRUE
    /\ readPc' = "load"
    /\ UNCHANGED <<lastWritten, acked, conn, connected, sockOpen, loopVars, readDone, sendVars,
                   callVars, agentVars, maxReconnectAttempts, messageQueue, done, nextId,
                   crashed, fatalSeen>>
    /\ UNCHANGED <<bpVars, capVars>>

\* handleError -> Disconnect: close(c.done)
ReadDisconnectClose ==
    /\ ~crashed
    /\ readPc = "disc1"
    /\ DisconnectCloseDone
    /\ readPc' = "disc2"
    /\ UNCHANGED <<lastWritten, acked, flagVars, loopVars, readDone, sendVars, callVars, agentVars,
                   maxReconnectAttempts, messageQueue, nextId, fatalSeen>>
    /\ UNCHANGED <<bpVars, capVars>>

\* handleError -> Disconnect: the section under c.mu; then the read loop goes on.
ReadDisconnectLocked ==
    /\ ~crashed
    /\ readPc = "disc2"
    /\ DisconnectLocked
    /\ readPc' = "load"
    /\ UNCHANGED <<lastWritten, acked, loopVars, readDone, sendVars, callVars, agentVars,
                   maxReconnectAttempts, messageQueue, done, nextId, crashed,
                   fatalSeen>>
    /\ UNCHANGED <<bpVars, capVars>>

(***************************************************************************)
(* agent.Stop (Shutdown, or the signal handler): under a.mu, a no-op unless*)
(* started; Disconnect; started = false.  A second Stop finds started      *)
(* false and changes nothing.                                              *)
(***************************************************************************)
StopCloseDone ==
    /\ ~crashed
    /\ stopPc = "idle"
    /\ globalAgent
    /\ started
    /\ DisconnectCloseDone
    /\ stopPc' = "locked"
    /\ UNCHANGED <<lastWritten, acked, flagVars, loopVars, readVars, sendVars, callVars, globalAgent, started,
                   maxReconnectAttempts, messageQueue, nextId, fatalSeen>>
    /\ UNCHANGED <<bpVars, capVars>>

StopLocked ==
    /\ ~crashed
    /\ stopPc = "locked"
    /\ DisconnectLocked
    /\ started' = FALSE
    /\ stopPc' = "stopped"
    /\ UNCHANGED <<lastWritten, acked, loopVars, readVars, sendVars, callVars, globalAgent,
                   maxReconnectAttempts, messageQueue, done, nextId, crashed,
                   fatalSeen>>
    /\ UNCHANGED <<bpVars, capVars>>

(***************************************************************************)
(* A capture goroutine: a goroutine that panics with a deferred            *)
(* agent.CapturePanic().  rec and out record its last call: the recovered  *)
(* value, and the value of the panic that left CapturePanic.               *)
(***************************************************************************)
\* CapturePanic: r := recover(), r != nil; globalAgent.handlePanic(r) when
\* globalAgent is not nil; then panic(r).  handlePanic calls
\* Agent.CaptureError, which returns at once if !a.started or
\* !a.config.ShouldSample().  capture.CaptureError: extractWrappedErrors
\* calls e.Error() on every entry of Unwrap() []error; a nil entry panics and
\* nothing in CaptureError, handlePanic or CapturePanic recovers it.
\* Otherwise the call goes on to connection.SendException.
CallStart(c) ==
    /\ ~crashed
    /\ spc[c] = "idle"
    /\ \E r \in ErrorValues, sampled \in BOOLEAN :
         /\ rec' = [rec EXCEPT ![c] = r]
         /\ IF ~(globalAgent /\ started /\ sampled)
            THEN /\ out' = [out EXCEPT ![c] = r]
                 /\ UNCHANGED <<spc, smsg, nextId>>
            ELSE IF r = NilChainError
            THEN /\ out' = [out EXCEPT ![c] = RuntimeError]
                 /\ UNCHANGED <<spc, smsg, nextId>>
            ELSE /\ nextId <= MaxMsgs
                 /\ out' = [out EXCEPT ![c] = NoValue]
                 /\ spc' = [spc EXCEPT ![c] = "send"]
                 /\ smsg' = [smsg EXCEPT ![c] = [id |-> nextId, type |-> "exception"]]
                 /\ nextId' = nextId + 1
    /\ UNCHANGED <<lastWritten, acked, flagVars, loopVars, readVars, sconn, snap, clean,
                   agentVars, maxReconnectAttempts, messageQueue, done, crashed,
                   fatalSeen>>
    /\ UNCHANGED <<bpVars, capVars>>

\* SendException, CaptureError and handlePanic returned: panic(r).
CallFinish(c) ==
    /\ ~crashed
    /\ spc[c] = "ret"
    /\ out' = [out EXCEPT ![c] = rec[c]]
    /\ spc' = [spc EXCEPT ![c] = "idle"]
    /\ smsg' = [smsg EXCEPT ![c] = NoMsg]
    /\ sconn' = [sconn EXCEPT ![c] = FALSE]
    /\ snap' = [snap EXCEPT ![c] = <<>>]
    /\ clean' = [clean EXCEPT ![c] = FALSE]
    /\ UNCHANGED <<lastWritten, acked, flagVars, loopVars, readVars, rec, agentVars,
                   maxReconnectAttempts, messageQueue, done, nextId, crashed,
                   fatalSeen>>
    /\ UNCHANGED <<bpVars, capVars>>

(***************************************************************************)
(* breakpoint.Manager.                                                     *)
(***************************************************************************)
IDs == {"a"}
\* The key a set command without a string id registers: id, _ := payloadMap["id"].(string)
EmptyID == ""
Keys == IDs \cup {EmptyID}
Hitters == {"h1", "h2"}
Refs == 1..MaxObjs
\* The maxHits arguments tried.
MaxHitsInputs == {0, 2, 51}

\* SetBreakpoint: if maxHits < 1 { maxHits = 1 }; if maxHits > 50 { maxHits = 50 }
\* (ClampMaxHitsNoFloor: the upper clamp alone.)
ClampMaxHitsNoFloor(maxHits) == IF maxHits > MaxMaxHits THEN MaxMaxHits ELSE maxHits
ClampMaxHits(maxHits) ==
    IF maxHits < MinMaxHits THEN MinMaxHits
    ELSE IF maxHits > MaxMaxHits THEN MaxMaxHits
    ELSE maxHits

\* NewManager: an empty registry, captureCount 0, captureWindowStart = time.Now().
InitBP ==
    /\ breakpoints = [i \in Keys |-> 0]
    /\ bpID = [r \in Refs |-> "none"]
    /\ bpMaxHits = [r \in Refs |-> 0]
    /\ bpHitCount = [r \in Refs |-> 0]
    /\ bpAsked = [r \in Refs |-> 0]
    /\ lastCmd = "none"
    /\ nextRef = 1
    /\ captureCount = 0
    /\ captureWindowStart = 0
    /\ now = 0
    /\ hpc = [h \in Hitters |-> "idle"]
    /\ hbp = [h \in Hitters |-> 0]
    /\ hcnt = [h \in Hitters |-> 0]
    /\ hhit = [h \in Hitters |-> 0]
    /\ hnow = [h \in Hitters |-> 0]
    /\ hreset = [h \in Hitters |-> "no"]
    /\ limited = FALSE
    /\ sent = <<>>

hitVars == <<hpc, hbp, hcnt, hhit, hnow, hreset>>
objVars == <<bpID, bpMaxHits, bpHitCount, bpAsked, nextRef>>
rateVars == <<captureCount, captureWindowStart, limited>>

\* The clock advances.
Tick ==
    /\ now < MaxTime
    /\ now' = now + 1
    /\ UNCHANGED <<breakpoints, lastCmd, objVars, rateVars, hitVars, sent>>
    /\ UNCHANGED <<connVars, capVars>>

\* SetBreakpoint(id, ..., maxHits): under m.mu, m.breakpoints[id] = a new
\* BreakpointInfo with the clamped MaxHits and HitCount 0.
\* (SetEntryKeepHits: a set that carries the replaced entry's HitCount over.)
SetEntryKeepHits(id, maxHits) ==
    /\ nextRef <= MaxObjs
    /\ breakpoints' = [breakpoints EXCEPT ![id] = nextRef]
    /\ bpID' = [bpID EXCEPT ![nextRef] = id]
    /\ bpMaxHits' = [bpMaxHits EXCEPT ![nextRef] = ClampMaxHits(maxHits)]
    /\ bpHitCount' = [bpHitCount EXCEPT ![nextRef] =
                         IF breakpoints[id] # 0 THEN bpHitCount[breakpoints[id]] ELSE 0]
    /\ bpAsked' = [bpAsked EXCEPT ![nextRef] = maxHits]
    /\ nextRef' = nextRef + 1
SetEntry(id, maxHits) ==
    /\ nextRef <= MaxObjs
    /\ breakpoints' = [breakpoints EXCEPT ![id] = nextRef]
    /\ bpID' = [bpID EXCEPT ![nextRef] = id]
    /\ bpMaxHits' = [bpMaxHits EXCEPT ![nextRef] = ClampMaxHits(maxHits)]
    /\ bpHitCount' = [bpHitCount EXCEPT ![nextRef] = 0]
    /\ bpAsked' = [bpAsked EXCEPT ![nextRef] = maxHits]
    /\ nextRef' = nextRef + 1

SetBreakpoint(id, maxHits) ==
    /\ SetEntry(id, maxHits)
    /\ UNCHANGED <<rateVars, now, hitVars, lastCmd, sent>>
    /\ UNCHANGED <<connVars, capVars>>

\* RemoveBreakpoint(id): under m.mu, delete(m.breakpoints, id).
RemoveBreakpoint(id) ==
    /\ breakpoints[id] # 0
    /\ breakpoints' = [breakpoints EXCEPT ![id] = 0]
    /\ UNCHANGED <<objVars, rateVars, now, hitVars, lastCmd, sent>>
    /\ UNCHANGED <<connVars, capVars>>

(***************************************************************************)
(* Manager.HandleCommand(command, payload).  A payload is NotAMap (any     *)
(* value that is neither a map nor a json.RawMessage), BadJSON (a          *)
(* RawMessage that does not decode to a map), or a map (given directly or  *)
(* decoded from a RawMessage) with or without a string "id" and with or    *)
(* without a numeric "max_hits" (whole numbers here).                      *)
(***************************************************************************)
NotAMap == "not_a_map"
BadJSON == "bad_json"
NoID == "no_string_id"
\* The max_hits values the backend sends.
CmdMaxHits == {-3, 0, 2, 51}
\* kind: what the payload is; id: its string "id", if any; has_max_hits,
\* max_hits: its numeric "max_hits", if any.
PayloadMaps == [kind : {"map"}, id : IDs \cup {NoID}, has_max_hits : BOOLEAN,
                max_hits : CmdMaxHits]
Payloads == [kind : {NotAMap, BadJSON}, id : {NoID}, has_max_hits : {FALSE},
             max_hits : {0}] \cup PayloadMaps
Commands == {"set", "remove", "ping"}

\* id, _ := payloadMap["id"].(string)
PayloadID(payload) == IF payload.id = NoID THEN EmptyID ELSE payload.id
\* maxHits := 1; if mh, ok := payloadMap["max_hits"].(float64); ok { maxHits = int(mh) }
PayloadMaxHits(payload) == IF payload.has_max_hits THEN payload.max_hits ELSE 1

HandleCommand(command, payload) ==
    /\ lastCmd' = IF payload.kind \in {NotAMap, BadJSON} THEN "no_map"
                   ELSE IF command = "set"
                        THEN (IF payload.id = NoID THEN "set_no_id"
                              ELSE IF breakpoints[payload.id] # 0 THEN "set_replace"
                              ELSE "set_new")
                   ELSE IF command = "remove" THEN "remove"
                   ELSE "other"
    /\ IF payload.kind \in {NotAMap, BadJSON}
       THEN UNCHANGED <<breakpoints, objVars>>
       ELSE CASE command = "set" ->
                     SetEntry(PayloadID(payload), PayloadMaxHits(payload))
              [] command = "remove" ->
                     /\ breakpoints' = [breakpoints EXCEPT ![PayloadID(payload)] = 0]
                     /\ UNCHANGED objVars
              [] OTHER -> UNCHANGED <<breakpoints, objVars>>
    /\ UNCHANGED <<rateVars, now, hitVars, sent>>
    /\ UNCHANGED <<connVars, capVars>>

(***************************************************************************)
(* Manager.Hit(id).  hpc[h]: "idle" -> "check" -> "rlwin" -> "rlcmp" ->    *)
(* "rlstore" -> "inc" -> "fwd" -> "idle".                                  *)
(***************************************************************************)
\* m.mu.RLock(); bp, exists := m.breakpoints[id]; m.mu.RUnlock();
\* if !exists { return }
HitLookup(h, id) ==
    /\ hpc[h] = "idle"
    /\ Len(sent) < MaxForwards
    /\ hbp' = [hbp EXCEPT ![h] = breakpoints[id]]
    /\ hpc' = [hpc EXCEPT ![h] = IF breakpoints[id] = 0 THEN "idle" ELSE "check"]
    /\ UNCHANGED <<breakpoints, lastCmd, objVars, rateVars, now, hcnt, hhit, hnow, hreset, sent>>
    /\ UNCHANGED <<connVars, capVars>>

\* bp.HitCount >= bp.MaxHits
\* (CeilingReachedOffByOne: the comparison with > in place of >=.)
CeilingReachedOffByOne(hitCount, maxHits) == hitCount > maxHits
CeilingReached(hitCount, maxHits) == hitCount >= maxHits

\* (HitCheckCounting: a Hit that consults the limiter before the ceiling,
\* so that a trigger rejected at the ceiling has been counted.)
HitCheckCounting(h) ==
    /\ hpc[h] = "check"
    /\ IF CeilingReached(bpHitCount[hbp[h]], bpMaxHits[hbp[h]])
       THEN /\ hpc' = [hpc EXCEPT ![h] = "idle"]
            /\ hbp' = [hbp EXCEPT ![h] = 0]
            /\ captureCount' = captureCount + 1
       ELSE /\ hpc' = [hpc EXCEPT ![h] = "rlwin"]
            /\ hbp' = hbp
            /\ captureCount' = captureCount
    /\ UNCHANGED <<breakpoints, lastCmd, objVars, captureWindowStart, limited, now, hcnt, hhit,
                   hnow, hreset, sent>>
    /\ UNCHANGED <<connVars, capVars>>

\* if bp.HitCount >= bp.MaxHits { return }   (read without the lock)
HitCheck(h) ==
    /\ hpc[h] = "check"
    /\ IF CeilingReached(bpHitCount[hbp[h]], bpMaxHits[hbp[h]])
       THEN /\ hpc' = [hpc EXCEPT ![h] = "idle"]
            /\ hbp' = [hbp EXCEPT ![h] = 0]
       ELSE /\ hpc' = [hpc EXCEPT ![h] = "rlwin"]
            /\ hbp' = hbp
    /\ UNCHANGED <<breakpoints, lastCmd, objVars, rateVars, now, hcnt, hhit, hnow, hreset, sent>>
    /\ UNCHANGED <<connVars, capVars>>

\* rateLimitOk, without the lock: now := time.Now();
\* if now.Sub(m.captureWindowStart) >= time.Second {
\*     m.captureCount = 0; m.captureWindowStart = now }
RateWindow(h) ==
    /\ hpc[h] = "rlwin"
    /\ IF now - captureWindowStart >= TicksPerSecond
       THEN /\ captureCount' = 0
            /\ captureWindowStart' = now
            /\ limited' = FALSE
            /\ hreset' = [hreset EXCEPT ![h] = IF limited THEN "unblock" ELSE "reset"]
       ELSE UNCHANGED <<rateVars, hreset>>
    /\ hnow' = [hnow EXCEPT ![h] = now]
    /\ hpc' = [hpc EXCEPT ![h] = "rlcmp"]
    /\ UNCHANGED <<breakpoints, lastCmd, objVars, now, hbp, hcnt, hhit, sent>>
    /\ UNCHANGED <<connVars, capVars>>

\* if m.captureCount >= maxCapturesPerSecond { return false }
RateCompare(h) ==
    /\ hpc[h] = "rlcmp"
    /\ IF captureCount >= maxCapturesPerSecond
       THEN /\ hpc' = [hpc EXCEPT ![h] = "idle"]
            /\ limited' = TRUE
            /\ hbp' = [hbp EXCEPT ![h] = 0]
            /\ hnow' = [hnow EXCEPT ![h] = 0]
            /\ hcnt' = hcnt
       ELSE /\ hpc' = [hpc EXCEPT ![h] = "rlstore"]
            /\ hcnt' = [hcnt EXCEPT ![h] = captureCount]
            /\ UNCHANGED <<limited, hbp, hnow>>
    /\ hreset' = [hreset EXCEPT ![h] = "no"]
    /\ UNCHANGED <<breakpoints, lastCmd, objVars, captureCount, captureWindowStart, now, hhit, sent>>
    /\ UNCHANGED <<connVars, capVars>>

\* m.captureCount++; return true: the store of the value loaded plus one.
RateStore(h) ==
    /\ hpc[h] = "rlstore"
    /\ captureCount' = hcnt[h] + 1
    /\ hpc' = [hpc EXCEPT ![h] = "inc"]
    /\ UNCHANGED <<breakpoints, lastCmd, objVars, captureWindowStart, limited, now, hbp, hcnt,
                   hhit, hnow, hreset, sent>>
    /\ UNCHANGED <<connVars, capVars>>

\* m.mu.Lock(); bp.HitCount++; hitCount := bp.HitCount; m.mu.Unlock()
HitIncrement(h) ==
    /\ hpc[h] = "inc"
    /\ bpHitCount' = [bpHitCount EXCEPT ![hbp[h]] = @ + 1]
    /\ hhit' = [hhit EXCEPT ![h] = bpHitCount[hbp[h]] + 1]
    /\ hpc' = [hpc EXCEPT ![h] = "fwd"]
    /\ UNCHANGED <<breakpoints, lastCmd, bpID, bpMaxHits, bpAsked, nextRef, rateVars, now, hbp, hcnt,
                   hnow, hreset, sent>>
    /\ UNCHANGED <<connVars, capVars>>

\* m.sender.SendBreakpointHit(bp.ID, payload)
HitForward(h) ==
    /\ hpc[h] = "fwd"
    /\ sent' = Append(sent, [id |-> bpID[hbp[h]], ref |-> hbp[h], hit |-> hhit[h],
                             at |-> hnow[h]])
    /\ hpc' = [hpc EXCEPT ![h] = "idle"]
    /\ hbp' = [hbp EXCEPT ![h] = 0]
    /\ hcnt' = [hcnt EXCEPT ![h] = 0]
    /\ hhit' = [hhit EXCEPT ![h] = 0]
    /\ hnow' = [hnow EXCEPT ![h] = 0]
    /\ UNCHANGED <<breakpoints, lastCmd, objVars, rateVars, now, hreset>>
    /\ UNCHANGED <<connVars, capVars>>

(***************************************************************************)
(* capture.captureValue(name, value, depth, maxDepth).                     *)
(* A value is a graph of heap objects.  An object is an int, a nil         *)
(* pointer, a pointer, a slice or a struct; the target of a pointer, an    *)
(* element and a field are interface values: an object, or 0 for the nil   *)
(* interface.  (reflect.ValueOf never yields Kind Interface here, because  *)
(* Value.Interface() returns the dynamic value: an interface is looked     *)
(* through on the way.)  Maps are captured by the same code shape as       *)
(* structs, strings and the other kinds as ints.                           *)
(* The recursion is run one call at a time: cvStack holds the calls still  *)
(* to be made, cvNodes the Variables returned, each with its place (path)  *)
(* in the tree under the capture root.  A pointer's call returns what its  *)
(* callee returns, so it hands its place in cvStack to the callee.         *)
(***************************************************************************)
Objs == 1..NumObjs
Values == {0} \cup Objs
\* The lengths of the slices captured.
ElemCounts == {0, 1, 2}

HeapObjects ==
    [kind : {"int", "nilptr"}, refs : {<<>>}]
        \cup [kind : {"ptr", "struct"}, refs : [1..1 -> Values]]
        \cup UNION {[kind : {"slice"}, refs : [1..n -> Values]] : n \in ElemCounts}

IntObject == [kind |-> "int", refs |-> <<>>]

InitCapIdle ==
    /\ cvHeap = [o \in Objs |-> IntObject]
    /\ cvRoot = 0
    /\ cvMaxDepth = 0
    /\ cvStack = <<>>
    /\ cvNodes = {}
    /\ cvCalls = 0

\* CaptureValue(name, value, maxDepth): captureValue(name, value, 0, maxDepth)
InitCapValue ==
    /\ cvHeap \in [Objs -> HeapObjects]
    /\ cvRoot \in {0, 1}
    /\ cvMaxDepth \in 0..MaxDepthBound
    /\ cvStack = <<[path |-> <<>>, value |-> cvRoot, depth |-> 0]>>
    /\ cvNodes = {}
    /\ cvCalls = 0

CvTop == Head(cvStack)
CvKind == cvHeap[CvTop.value].kind

\* One more call of captureValue has been made.
CvCalled == cvCalls' = (cvCalls + 1) % 2

\* The call returns a Variable without children.
CvReturn(type, value, isNull, isTruncated) ==
    /\ cvNodes' = cvNodes \cup {[path |-> CvTop.path, Type |-> type, Value |-> value,
                                 IsNull |-> isNull, IsTruncated |-> isTruncated,
                                 Children |-> 0]}
    /\ cvStack' = Tail(cvStack)
    /\ CvCalled
    /\ UNCHANGED <<cvHeap, cvRoot, cvMaxDepth>>

\* if value == nil { return Variable{Type: "nil", Value: "nil", IsNull: true} }
CvNil ==
    /\ cvStack # <<>>
    /\ CvTop.value = 0
    /\ CvReturn("nil", "nil", TRUE, FALSE)
    /\ UNCHANGED <<connVars, bpVars, fpVars, ceVars>>

\* (DepthExceededOffByOne: the guard with >= in place of >.)
DepthExceededOffByOne(depth, maxDepth) == depth >= maxDepth

\* depth > maxDepth
DepthExceeded(depth, maxDepth) == depth > maxDepth

\* if depth > maxDepth {
\*     return Variable{Value: "<max depth exceeded>", IsTruncated: true} }
CvMaxDepth ==
    /\ cvStack # <<>>
    /\ CvTop.value # 0
    /\ DepthExceeded(CvTop.depth, cvMaxDepth)
    /\ CvReturn(CvKind, "<max depth exceeded>", FALSE, TRUE)
    /\ UNCHANGED <<connVars, bpVars, fpVars, ceVars>>

\* case reflect.Bool, reflect.Int, ...: return Variable{Value: fmt.Sprintf("%v", value)}
CvScalar ==
    /\ cvStack # <<>>
    /\ CvTop.value # 0
    /\ ~DepthExceeded(CvTop.depth, cvMaxDepth)
    /\ CvKind = "int"
    /\ CvReturn("int", "%v", FALSE, FALSE)
    /\ UNCHANGED <<connVars, bpVars, fpVars, ceVars>>

\* case reflect.Ptr, reflect.Interface: if v.IsNil() { return Variable{Value: "nil", IsNull: true} }
CvNilPtr ==
    /\ cvStack # <<>>
    /\ CvTop.value # 0
    /\ ~DepthExceeded(CvTop.depth, cvMaxDepth)
    /\ CvKind = "nilptr"
    /\ CvReturn("ptr", "nil", TRUE, FALSE)
    /\ UNCHANGED <<connVars, bpVars, fpVars, ceVars>>

\* case reflect.Ptr, reflect.Interface:
\*     return captureValue(name, v.Elem().Interface(), depth, maxDepth)
CvDeref ==
    /\ cvStack # <<>>
    /\ CvTop.value # 0
    /\ ~DepthExceeded(CvTop.depth, cvMaxDepth)
    /\ CvKind = "ptr"
    /\ cvStack' = <<[path |-> CvTop.path, value |-> cvHeap[CvTop.value].refs[1],
                     depth |-> CvTop.depth]>> \o Tail(cvStack)
    /\ CvCalled
    /\ UNCHANGED <<cvHeap, cvRoot, cvMaxDepth, cvNodes>>
    /\ UNCHANGED <<connVars, bpVars, fpVars, ceVars>>

\* case reflect.Slice, reflect.Array / reflect.Map / reflect.Struct: one call
\* captureValue(.., depth+1, maxDepth) per element or field, and
\* return Variable{ArrayElements: elements} or Variable{Children: children}
CvContainer ==
    /\ cvStack # <<>>
    /\ CvTop.value # 0
    /\ ~DepthExceeded(CvTop.depth, cvMaxDepth)
    /\ CvKind \in {"slice", "struct"}
    /\ LET refs == cvHeap[CvTop.value].refs
       IN /\ cvNodes' = cvNodes \cup {[path |-> CvTop.path, Type |-> CvKind,
                                       Value |-> "items", IsNull |-> FALSE,
                                       IsTruncated |-> FALSE, Children |-> Len(refs)]}
          /\ cvStack' = [i \in 1..Len(refs) |->
                            [path |-> Append(CvTop.path, i), value |-> refs[i],
                             depth |-> CvTop.depth + 1]] \o Tail(cvStack)
    /\ CvCalled
    /\ UNCHANGED <<cvHeap, cvRoot, cvMaxDepth>>
    /\ UNCHANGED <<connVars, bpVars, fpVars, ceVars>>

(***************************************************************************)
(* capture.calculateFingerprint and getErrorType.                          *)
(* A string is a sequence of symbols: a decimal digit, a separator, or an  *)
(* identifier (or the rest of one) written as one symbol.                  *)
(***************************************************************************)
\* The named types of the errors captured, with the name of the package that
\* declares them; an error holds a value of the type or a pointer to one.
ErrorPackages == {"orders"}
ErrorTypeNames == {"OrderNotFoundError", "TimeoutError"}
\* reflect.TypeOf(err) == nil: the error holds no value
NilError == [pkg |-> "", name |-> "", ptr |-> FALSE]
ErrorTypes ==
    {NilError} \cup [pkg : ErrorPackages, name : ErrorTypeNames, ptr : BOOLEAN]

\* Stack frames: MethodName as extractFunctionName left it, LineNumber,
\* IsNative; FilePath is the build root the frame's file lies under.
MethodNames == {<<"FetchOrder">>, <<"FetchOrder", "4">>}
LineNumbers == {2, 42}
BuildRoots == {"/src", "/build"}
\* A native frame (a file under runtime/) carries the method and line of one
\* of the others.
StackFrames ==
    [MethodName : MethodNames, LineNumber : LineNumbers, IsNative : {FALSE},
     FilePath : BuildRoots]
        \cup [MethodName : {<<"FetchOrder">>}, LineNumber : {42}, IsNative : {TRUE},
               FilePath : BuildRoots]
StackLens == 0..3
\* Stack traces; the frames of one trace lie under one build root.
StackTraces ==
    UNION {{st \in [1..n -> StackFrames] :
               \A i \in 1..n : st[i].FilePath = st[1].FilePath} : n \in StackLens}

RECURSIVE FormatInt(_)
RECURSIVE FingerprintParts(_, _, _)

\* fmt.Sprintf("%d", n) for n >= 0
FormatInt(n) ==
    IF n < 10 THEN <<ToString(n)>> ELSE FormatInt(n \div 10) \o <<ToString(n % 10)>>

\* reflect.Type.String() of a named type: the package name, a dot, the name.
TypeString(t) == <<t.pkg, ".", t.name>>

\* getErrorType: "error" for a nil error; for a pointer the type pointed to
getErrorType(t) ==
    IF t = NilError THEN <<"error">> ELSE TypeString(t)

\* (FormatFrameNoSeparator: the method name and the line run together.)
FormatFrameNoSeparator(frame) == frame.MethodName \o FormatInt(frame.LineNumber)

\* fmt.Sprintf("%s:%d", frame.MethodName, frame.LineNumber)
FormatFrame(frame) == frame.MethodName \o <<":">> \o FormatInt(frame.LineNumber)

\* the loop of calculateFingerprint over stackTrace from frame i on, with
\* `added` frames appended so far
FingerprintParts(stackTrace, i, added) ==
    IF i > Len(stackTrace) \/ added >= FingerprintFrames
    THEN <<>>
    ELSE IF stackTrace[i].IsNative
    THEN FingerprintParts(stackTrace, i + 1, added)
    ELSE <<FormatFrame(stackTrace[i])>> \o FingerprintParts(stackTrace, i + 1, added + 1)

\* strings.Join(parts, sep)
RECURSIVE Join(_, _)
Join(parts, sep) ==
    IF Len(parts) = 0 THEN <<>>
    ELSE IF Len(parts) = 1 THEN parts[1]
    ELSE parts[1] \o sep \o Join(Tail(parts), sep)

\* strings.Join(parts, ":") with parts = getErrorType(err) and the frames
FingerprintKey(t, stackTrace) ==
    Join(<<getErrorType(t)>> \o FingerprintParts(stackTrace, 1, 0), <<":">>)

\* hash := sha256.Sum256([]byte(key)); hex.EncodeToString(hash[:8]): the 16
\* hex characters of the first 8 bytes of the digest of key
calculateFingerprint(t, stackTrace) ==
    [sha256 |-> FingerprintKey(t, stackTrace), hexChars |-> 16]

NoFingerprint == [sha256 |-> <<>>, hexChars |-> 0]

InitFpIdle ==
    /\ fpType = NilError
    /\ fpStack = <<>>
    /\ fpOut = NoFingerprint

InitFp ==
    /\ fpType \in ErrorTypes
    /\ fpStack \in StackTraces
    /\ fpOut = NoFingerprint

cvVars == <<cvHeap, cvRoot, cvMaxDepth, cvStack, cvNodes, cvCalls>>

\* fingerprint := calculateFingerprint(err, stackTrace)
Fingerprint ==
    /\ fpOut = NoFingerprint
    /\ fpOut' = calculateFingerprint(fpType, fpStack)
    /\ UNCHANGED <<fpType, fpStack>>
    /\ UNCHANGED <<connVars, bpVars, cvVars, ceVars>>

(***************************************************************************)
(* capture.CaptureError(err, maxDepth, ctx).  A Go panic raised inside the  *)
(* function leaves it: nothing in CaptureError recovers.                   *)
(* cePc: "fingerprint" -> "context" -> "fields" -> "wrapped" -> "return"   *)
(*       -> "done", or "done" at the step that panics.                     *)
(***************************************************************************)
\* An error: nil, or a value whose type may have Unwrap() error, or
\* Unwrap() []error, and may have Cause() error.  "nil" / "err": what the
\* method returns, or an entry of the slice it returns.
NoMethod == "no_method"
Returned == {"nil", "err"}
ChainLens == 0..3
ErrorChains == UNION {[1..n -> Returned] : n \in ChainLens}
NilErr == [isNil |-> TRUE, unwrap |-> NoMethod, multi |-> <<NoMethod>>, cause |-> NoMethod]
Errors ==
    {NilErr}
        \cup [isNil : {FALSE}, unwrap : {NoMethod} \cup Returned, multi : {<<NoMethod>>},
               cause : {NoMethod} \cup Returned]
        \cup [isNil : {FALSE}, unwrap : {NoMethod}, multi : ErrorChains,
               cause : {NoMethod} \cup Returned]
\* ctx: a nil map, an empty map, a map with one key
Contexts == {"nil", "empty", "one_key"}

InitCeIdle ==
    /\ ceErr = NilErr
    /\ ceCtx = "nil"
    /\ cePc = "done"
    /\ ceLocals = {}
    /\ ceOut = "none"

InitCe ==
    /\ ceErr \in Errors
    /\ ceCtx \in Contexts
    /\ cePc = "fingerprint"
    /\ ceLocals = {}
    /\ ceOut = "none"
    /\ fpType = IF ceErr.isNil THEN NilError
                ELSE [pkg |-> "orders", name |-> "OrderNotFoundError", ptr |-> TRUE]
    /\ fpStack = <<[MethodName |-> <<"FetchOrder">>, LineNumber |-> 42,
                    IsNative |-> FALSE, FilePath |-> "/src"]>>
    /\ fpOut = NoFingerprint

\* stackTrace := captureStackTrace(3); fingerprint := calculateFingerprint(err, stackTrace)
CeFingerprint ==
    /\ cePc = "fingerprint"
    /\ fpOut' = calculateFingerprint(fpType, fpStack)
    /\ cePc' = "context"
    /\ UNCHANGED <<fpType, fpStack, ceErr, ceCtx, ceLocals, ceOut>>
    /\ UNCHANGED <<connVars, bpVars, cvVars>>

\* context := make(map); if ctx != nil { copy }; localVariables := make(map);
\* for key, value := range ctx { localVariables[key] = captureValue(key, value, 0, maxDepth) }
CeContext ==
    /\ cePc = "context"
    /\ ceLocals' = IF ceCtx = "one_key" THEN ceLocals \cup {"key"} ELSE ceLocals
    /\ cePc' = "fields"
    /\ UNCHANGED <<ceErr, ceCtx, ceOut>>
    /\ UNCHANGED <<connVars, bpVars, cvVars, fpVars>>

\* extractErrorFields(err, localVariables, maxDepth): reflect.ValueOf(nil) has
\* Kind Invalid, which is neither Ptr nor Struct: return.  The errors that
\* are not nil are structs with one exported field.
CeErrorFields ==
    /\ cePc = "fields"
    /\ ceLocals' = IF ceErr.isNil THEN ceLocals ELSE ceLocals \cup {"err.Field"}
    /\ cePc' = "wrapped"
    /\ UNCHANGED <<ceErr, ceCtx, ceOut>>
    /\ UNCHANGED <<connVars, bpVars, cvVars, fpVars>>

\* elements = append(elements, Variable{Type: getErrorType(e), Value: e.Error()}):
\* e.Error() on a nil entry is a call on a nil interface value, which panics.
MultiEntryFails(e) == e = "nil"

\* extractWrappedErrors(err, localVariables, maxDepth)
CeWrappedErrors ==
    /\ cePc = "wrapped"
    /\ LET chain == IF ceErr.multi = <<NoMethod>> THEN <<>> ELSE ceErr.multi
           fails == \E i \in 1..Len(chain) : i <= 10 /\ MultiEntryFails(chain[i])
       IN IF fails
          THEN /\ ceOut' = "panic"
               /\ cePc' = "done"
               /\ ceLocals' = ceLocals \cup (IF ceErr.unwrap = "err"
                                              THEN {"wrapped_error"} ELSE {})
          ELSE /\ ceOut' = ceOut
               /\ cePc' = "return"
               /\ ceLocals' = ceLocals
                     \cup (IF ceErr.unwrap = "err" THEN {"wrapped_error"} ELSE {})
                     \cup (IF Len(chain) > 0 THEN {"wrapped_errors"} ELSE {})
                     \cup (IF ceErr.cause = "err" THEN {"cause"} ELSE {})
    /\ UNCHANGED <<ceErr, ceCtx>>
    /\ UNCHANGED <<connVars, bpVars, cvVars, fpVars>>

\* return &ExceptionCapture{ExceptionType: getErrorType(err), Message: err.Error(), ...}:
\* err.Error() on a nil error panics.
CeReturn ==
    /\ cePc = "return"
    /\ ceOut' = IF ceErr.isNil THEN "panic" ELSE "capture"
    /\ cePc' = "done"
    /\ UNCHANGED <<ceErr, ceCtx, ceLocals>>
    /\ UNCHANGED <<connVars, bpVars, cvVars, fpVars>>

(***************************************************************************)
(* Spec: the connection, the agent's Stop and a capture goroutine.  The    *)
(* network fails at most MaxConsecutiveFailures dials in a row.            *)
(***************************************************************************)
Init == InitConn /\ InitBP /\ InitCapIdle /\ InitFpIdle /\ InitCeIdle

Next ==
    \/ ConnCheck
    \/ (consecFails < MaxConsecutiveFailures /\ ConnDialFail)
    \/ ConnSleep
    \/ ConnDialOk
    \/ ConnSetConn
    \/ ConnRegister
    \/ MlDone
    \/ MlReadDone
    \/ MlHeartbeat
    \/ MlHeartbeatSent
    \/ MlDequeue
    \/ MlWrite
    \/ ReadLoad
    \/ ReadRecv
    \/ ReadRegistered
    \/ ReadDisconnectClose
    \/ ReadDisconnectLocked
    \/ StopCloseDone
    \/ StopLocked
    \/ \E p \in Procs : SendCheck(p)
    \/ \E p \in Procs : SendTry(p)
    \/ \E p \in Procs : SendDrop(p)
    \/ \E p \in Procs : SendPush(p)
    \/ \E c \in Callers : CallStart(c)
    \/ \E c \in Callers : CallFinish(c)

Spec == Init /\ [][Next]_vars

(***************************************************************************)
(* SpecBackoff: the connection with nothing to send (no capture goroutine, *)
(* no heartbeat tick) and a network free to fail every dial.               *)
(***************************************************************************)
NextBackoff ==
    \/ ConnCheck
    \/ ConnDialFail
    \/ ConnSleep
    \/ ConnDialOk
    \/ ConnSetConn
    \/ ConnRegister
    \/ MlDone
    \/ MlReadDone
    \/ ReadLoad
    \/ ReadRecv
    \/ ReadRegistered
    \/ ReadDisconnectClose
    \/ ReadDisconnectLocked
    \/ StopCloseDone
    \/ StopLocked

SpecBackoff == Init /\ [][NextBackoff]_vars

(***************************************************************************)
(* SpecBP: a breakpoint manager, the backend's set and remove commands,    *)
(* the clock and the triggering goroutines.                                *)
(***************************************************************************)
NextBP ==
    \/ Tick
    \/ \E id \in IDs, maxHits \in MaxHitsInputs : SetBreakpoint(id, maxHits)
    \/ \E id \in IDs : RemoveBreakpoint(id)
    \/ \E h \in Hitters, id \in IDs : HitLookup(h, id)
    \/ \E h \in Hitters : HitCheck(h)
    \/ \E h \in Hitters : RateWindow(h)
    \/ \E h \in Hitters : RateCompare(h)
    \/ \E h \in Hitters : RateStore(h)
    \/ \E h \in Hitters : HitIncrement(h)
    \/ \E h \in Hitters : HitForward(h)

SpecBP == Init /\ [][NextBP]_vars

(***************************************************************************)
(* SpecBPSeq: the manager with one Hit call at a time (a call begins only  *)
(* when no other is in progress); set and remove commands and the clock    *)
(* still interleave with it.                                               *)
(***************************************************************************)
NextBPSeq ==
    \/ Tick
    \/ \E id \in IDs, maxHits \in MaxHitsInputs : SetBreakpoint(id, maxHits)
    \/ \E id \in IDs : RemoveBreakpoint(id)
    \/ \E h \in Hitters, id \in IDs :
          (\A g \in Hitters : hpc[g] = "idle") /\ HitLookup(h, id)
    \/ \E h \in Hitters : HitCheck(h)
    \/ \E h \in Hitters : RateWindow(h)
    \/ \E h \in Hitters : RateCompare(h)
    \/ \E h \in Hitters : RateStore(h)
    \/ \E h \in Hitters : HitIncrement(h)
    \/ \E h \in Hitters : HitForward(h)

SpecBPSeq == Init /\ [][NextBPSeq]_vars

(***************************************************************************)
(* SpecCmd: the manager driven by the backend's commands (HandleCommand)   *)
(* while goroutines trigger probes.                                        *)
(***************************************************************************)
\* One goroutine triggers probes here.
CmdHitters == {"h1"}

NextCmd ==
    \/ \E command \in Commands, payload \in Payloads : HandleCommand(command, payload)
    \/ \E h \in CmdHitters, id \in Keys : HitLookup(h, id)
    \/ \E h \in CmdHitters : HitCheck(h)
    \/ \E h \in CmdHitters : RateWindow(h)
    \/ \E h \in CmdHitters : RateCompare(h)
    \/ \E h \in CmdHitters : RateStore(h)
    \/ \E h \in CmdHitters : HitIncrement(h)
    \/ \E h \in CmdHitters : HitForward(h)

SpecCmd == Init /\ [][NextCmd]_vars

(***************************************************************************)
(* SpecShutdown: SpecBackoff's system under the scheduling the runtime     *)
(* guarantees.  Every goroutine that can take a step eventually takes it;  *)
(* a dial eventually returns; a select with a ready case eventually takes  *)
(* it; ReadMessage on a socket that was closed locally returns an error.   *)
(* Nothing obliges the application to call Stop, or the peer to send a     *)
(* message or to close an open socket.                                     *)
(***************************************************************************)
FairShutdown ==
    /\ WF_vars(ConnCheck)
    /\ WF_vars(ConnDialFail \/ ConnDialOk)
    /\ WF_vars(ConnSleep)
    /\ WF_vars(ConnSetConn)
    /\ WF_vars(ConnRegister)
    /\ WF_vars(MlDone)
    /\ WF_vars(MlReadDone)
    /\ WF_vars(ReadLoad)
    /\ WF_vars(~sockOpen /\ ReadRecv)
    /\ WF_vars(ReadRegistered)
    /\ WF_vars(ReadDisconnectClose)
    /\ WF_vars(ReadDisconnectLocked)
    /\ WF_vars(StopLocked)

SpecShutdown == Init /\ [][NextBackoff]_vars /\ FairShutdown

(***************************************************************************)
(* SpecDrain: the connection on a network where every dial succeeds, with  *)
(* a capture goroutine and the heartbeat tick, and no Stop, under the      *)
(* scheduling the runtime guarantees: a goroutine inside send, the message *)
(* loop and the read goroutine take their next step when they can.         *)
(* Nothing obliges the application to capture another error, the ticker    *)
(* to fire, or the peer to send a message or to close the socket.          *)
(***************************************************************************)
NextDrain ==
    \/ ConnCheck
    \/ ConnDialOk
    \/ ConnSetConn
    \/ ConnRegister
    \/ MlDone
    \/ MlReadDone
    \/ MlHeartbeat
    \/ MlHeartbeatSent
    \/ MlDequeue
    \/ MlWrite
    \/ ReadLoad
    \/ ReadRecv
    \/ ReadRegistered
    \/ ReadDisconnectClose
    \/ ReadDisconnectLocked
    \/ \E p \in Procs : SendCheck(p)
    \/ \E p \in Procs : SendTry(p)
    \/ \E p \in Procs : SendDrop(p)
    \/ \E p \in Procs : SendPush(p)
    \/ \E c \in Callers : CallStart(c)
    \/ \E c \in Callers : CallFinish(c)

FairDrain ==
    /\ WF_vars(ConnCheck)
    /\ WF_vars(ConnDialOk)
    /\ WF_vars(ConnSetConn)
    /\ WF_vars(ConnRegister)
    /\ WF_vars(MlDone)
    /\ WF_vars(MlReadDone)
    /\ WF_vars(MlHeartbeatSent)
    /\ WF_vars(MlDequeue)
    /\ WF_vars(MlWrite)
    /\ WF_vars(ReadLoad)
    /\ WF_vars(~sockOpen /\ ReadRecv)
    /\ WF_vars(ReadRegistered)
    /\ WF_vars(ReadDisconnectClose)
    /\ WF_vars(ReadDisconnectLocked)
    /\ \A p \in Procs : WF_vars(SendCheck(p))
    /\ \A p \in Procs : WF_vars(SendTry(p))
    /\ \A p \in Procs : WF_vars(SendDrop(p))
    /\ \A p \in Procs : WF_vars(SendPush(p))
    /\ \A c \in Callers : WF_vars(CallFinish(c))

SpecDrain == Init /\ [][NextDrain]_vars /\ FairDrain

(***************************************************************************)
(* SpecCapture: CaptureValue applied to every value built from NumObjs     *)
(* objects, for every maxDepth up to MaxDepthBound.  The goroutine that    *)
(* runs the capture keeps running: each call that can be made is made.     *)
(***************************************************************************)
InitCapture == InitConn /\ ~globalAgent /\ InitBP /\ InitCapValue /\ InitFpIdle /\ InitCeIdle

NextCapture ==
    \/ CvNil
    \/ CvMaxDepth
    \/ CvScalar
    \/ CvNilPtr
    \/ CvDeref
    \/ CvContainer

SpecCapture == InitCapture /\ [][NextCapture]_vars /\ WF_vars(NextCapture)

(***************************************************************************)
(* SpecFingerprint: calculateFingerprint applied to every error type and   *)
(* stack trace of the sets above.                                          *)
(***************************************************************************)
InitFingerprint == InitConn /\ ~globalAgent /\ InitBP /\ InitCapIdle /\ InitFp /\ InitCeIdle

NextFingerprint ==
    \/ Fingerprint

SpecFingerprint == InitFingerprint /\ [][NextFingerprint]_vars

(***************************************************************************)
(* SpecCaptureError: one call of capture.CaptureError for every error and  *)
(* context of the sets above.                                              *)
(***************************************************************************)
InitCaptureError == InitConn /\ ~globalAgent /\ InitBP /\ InitCapIdle /\ InitCe

NextCaptureError ==
    \/ CeFingerprint
    \/ CeContext
    \/ CeErrorFields
    \/ CeWrappedErrors
    \/ CeReturn

SpecCaptureError == InitCaptureError /\ [][NextCaptureError]_vars

(***************************************************************************)
(* The claims.                                                             *)
(***************************************************************************)
\* C1: when send finds the queue full (QueueCap messages, the channel's
\* capacity) and no other goroutine touches the queue before it is done, the
\* queue afterwards is the old queue without its head, in the same order,
\* followed by the new message: the single oldest message is gone, the new
\* one is the newest, and the size is again the capacity.
C1_DropOldest ==
    [][\A p \in Procs :
          (spc[p] = "push" /\ spc'[p] = "ret" /\ clean[p])
          => /\ sconn[p]
             /\ Len(snap[p]) = QueueCap
             /\ messageQueue' = Append(Tail(snap[p]), smsg[p])
             /\ Len(messageQueue') = QueueCap]_vars

C1_Witness ==
    \E p \in Callers :
        /\ spc[p] = "ret"
        /\ clean[p]
        /\ Len(snap[p]) = QueueCap
        /\ messageQueue = Append(Tail(snap[p]), smsg[p])

\* C2: a sender never waits on a full queue: whenever a send is at its plain
\* channel send (c.messageQueue <- data), the queue has room.
C2_SendNeverBlocks ==
    \A p \in Procs : spc[p] = "push" => ChanHasRoom(messageQueue)

\* C3: once the read goroutine has received an error envelope with code
\* auth_error or invalid_api_key, the connect loop never again passes its
\* shutdown check to begin a connection attempt.
C3_NoAttemptAfterRejection ==
    [][fatalSeen => ~(connPc # "dial" /\ connPc' = "dial")]_vars

C3_Witness == fatalSeen /\ connPc = "exit" /\ ~crashed

\* C4: whenever CapturePanic recovered a value r, the panic that leaves
\* CapturePanic carries that same r.
C4_PanicReraised ==
    \A c \in Callers : (spc[c] = "idle" /\ rec[c] # NoValue) => out[c] = rec[c]

\* C5: a message is placed on the outbound queue only at a moment when the
\* connection is connected and authenticated.
C5_EnqueueOnlyAuthenticated ==
    [][(\E p \in Procs : spc[p] \in {"try", "push"} /\ spc'[p] = "ret")
          => IsConnected]_vars

\* C6: while the connection is connected but not authenticated, no message
\* taken off the queue by the message loop is discarded.
C6_HeldWhileUnauthenticated ==
    [][~(/\ connPc = "write" /\ connPc' = "loop"
         /\ conn # NilConn /\ connected /\ ~authenticated)]_vars

\* C7: a message submitted through SendException while the connection is
\* not connected or not authenticated is in the message queue when
\* SendException returns.
C7_BufferedWhileLost ==
    \A c \in Callers :
        (spc[c] = "ret" /\ smsg[c] # NoMsg /\ ~sconn[c])
        => \E i \in 1..Len(messageQueue) : messageQueue[i] = smsg[c]

\* C8: while the connect loop sleeps after the k-th consecutive failed
\* attempt since the last successful dial, k is at most the ceiling and the
\* sleep is 1, 2, 4, 8, 16, 32 seconds for k = 1..6 and 60 seconds from the
\* 7th on; a successful dial resets k.
ExpectedWait(k) == IF k >= 7 THEN 60 ELSE <<1, 2, 4, 8, 16, 32>>[k]

C8_Backoff ==
    connPc = "sleep"
    => /\ consecFails \in 1..maxReconnectAttempts
       /\ delay = ExpectedWait(consecFails)
       /\ delay = Min(reconnectDelay * 2^(consecFails - 1), MaxDelay)

C8_Witness == connPc = "sleep" /\ consecFails = 7 /\ delay = 60

\* C9: at most ceiling+1 consecutive dials fail, and once the count of
\* consecutive failures exceeds the ceiling the connect loop has ended,
\* without sleeping or dialling again.
C9_GivesUp ==
    /\ consecFails <= DefaultMaxReconnectAttempts + 1
    /\ consecFails > maxReconnectAttempts => connPc = "exit"

C9_Witness == consecFails = DefaultMaxReconnectAttempts + 1 /\ connPc = "exit"

\* C10: of the trigger attempts that all fall within one second of each
\* other (by the rate limiter's own readings of the clock, less than a second
\* from the earliest to the latest), at most maxCapturesPerSecond forward a
\* payload.
ForwardedWithin(t) ==
    {i \in 1..Len(sent) : sent[i].at >= t /\ sent[i].at < t + TicksPerSecond}

C10_AtMostCapPerSecond ==
    \A t \in 0..MaxTime : Cardinality(ForwardedWithin(t)) <= maxCapturesPerSecond

\* C11: rate-limit rejection is never permanent: once the window has rejected
\* a trigger, the first attempt made at least a full second after the
\* window's start (the one whose rateLimitOk resets the window) is accepted by
\* the limiter.
C11_AcceptedAfterWindow ==
    [][\A h \in Hitters :
          (hpc[h] = "rlcmp" /\ hreset[h] = "unblock" /\ hpc'[h] # "rlcmp")
              => hpc'[h] = "rlstore"]_vars

\* C13: in every reachable state, under concurrent Hit calls too, the hit
\* count of a registration never exceeds its MaxHits (and so no more than
\* MaxHits payloads are forwarded for it).
C13_HitCountWithinCeiling ==
    \A r \in Refs : r < nextRef => bpHitCount[r] <= bpMaxHits[r]

\* C12: a Hit for an id with no registry entry forwards nothing; with one Hit
\* call at a time, a call on a registration with MaxHits = m gets past the
\* ceiling test only while fewer than m payloads have been forwarded for that
\* registration, returns at the test exactly when m have been, and each
\* forwarded payload carries the next hit number, at most m.
ForwardedFor(r) == Cardinality({i \in 1..Len(sent) : sent[i].ref = r})

C12_FirstMForward ==
    [][/\ sent' # sent => \E h \in Hitters : hpc[h] = "fwd" /\ hpc'[h] = "idle"
       /\ \A h \in Hitters :
          /\ (hpc[h] = "idle" /\ hpc'[h] # "idle")
                => (hbp'[h] # 0 /\ \E id \in IDs : breakpoints[id] = hbp'[h])
          /\ (hpc[h] = "check" /\ hpc'[h] = "rlwin")
                => ForwardedFor(hbp[h]) < bpMaxHits[hbp[h]]
          /\ (hpc[h] = "check" /\ hpc'[h] = "idle")
                => ForwardedFor(hbp[h]) = bpMaxHits[hbp[h]]
          /\ (hpc[h] = "fwd" /\ hpc'[h] = "idle")
                => /\ Len(sent') = Len(sent) + 1
                   /\ sent'[Len(sent')].ref = hbp[h]
                   /\ sent'[Len(sent')].hit = ForwardedFor(hbp[h]) + 1
                   /\ sent'[Len(sent')].hit <= bpMaxHits[hbp[h]]]_vars

\* A registration with MaxHits = 2 has forwarded twice and a third call is at
\* the ceiling test.
C12_Witness ==
    \E r \in Refs, h \in Hitters :
        /\ r < nextRef /\ bpMaxHits[r] = 2 /\ ForwardedFor(r) = 2
        /\ hpc[h] = "check" /\ hbp[h] = r

\* C14: a set stores the ceiling max(1, min(50, maxHits)) for every integer
\* maxHits, zero and negative ones included, and the registry entry it creates
\* or replaces is a new one with hit count 0.
Max(a, b) == IF a > b THEN a ELSE b

C14_SetClampsAndResets ==
    [][\A id \in Keys :
          (breakpoints'[id] # 0 /\ breakpoints'[id] # breakpoints[id])
              => /\ bpID'[breakpoints'[id]] = id
                 /\ bpMaxHits'[breakpoints'[id]] =
                        Max(1, Min(50, bpAsked'[breakpoints'[id]]))
                 /\ bpHitCount'[breakpoints'[id]] = 0]_vars

\* An entry asked for with a negative maxHits holds the ceiling 1 and has
\* replaced an entry that had been hit.
C14_Witness ==
    /\ lastCmd = "set_replace"
    /\ \E id \in IDs, r \in Refs :
          /\ breakpoints[id] = r /\ bpAsked[r] < 0 /\ bpMaxHits[r] = 1
          /\ \E q \in Refs : q < r /\ bpID[q] = id /\ bpHitCount[q] > 0

\* C15 (as stated): while an id stays registered its hit count never
\* decreases, not even across a later remote set for that id.
C15_HitCountKeptAcrossSet ==
    [][\A id \in Keys :
          (breakpoints[id] # 0 /\ breakpoints'[id] # 0)
              => bpHitCount'[breakpoints'[id]] >= bpHitCount[breakpoints[id]]]_vars

\* C15 (amended): the hit count of a BreakpointInfo never decreases; a set for
\* an already-registered id does not touch it but replaces the registry entry
\* by a new BreakpointInfo, so the id's hit count restarts at 0.
C15_HitCountPerRegistration ==
    [][/\ \A r \in Refs : r < nextRef => bpHitCount'[r] >= bpHitCount[r]
       /\ \A id \in Keys :
             (breakpoints[id] # 0 /\ breakpoints'[id] \notin {0, breakpoints[id]})
                 => /\ bpHitCount'[breakpoints'[id]] = 0
                    /\ bpHitCount'[breakpoints[id]] = bpHitCount[breakpoints[id]]]_vars

\* A remote set has just replaced an entry that had been hit: the old
\* BreakpointInfo keeps its count, the id's entry is at 0.
C15_Witness ==
    /\ lastCmd = "set_replace"
    /\ \E id \in IDs :
          /\ breakpoints[id] = nextRef - 1
          /\ bpHitCount[nextRef - 1] = 0
          /\ \E q \in Refs : q < nextRef - 1 /\ bpID[q] = id /\ bpHitCount[q] > 0

\* C16: HandleCommand leaves the registry unchanged for every malformed
\* payload: one that is no map (or JSON that decodes to none), and a set
\* payload without a string id.
C16_MalformedIgnored ==
    [][lastCmd' \in {"no_map", "set_no_id"} => breakpoints' = breakpoints]_vars

\* C17: after Disconnect has been invoked (done is closed) the connect loop,
\* the message loop and the read goroutine all eventually exit (or the
\* process has ended).
C17_ShutdownStopsLoops ==
    done ~> (crashed \/ (connPc = "exit" /\ readPc = "off"))

\* The read goroutine of the current message loop has returned and closed
\* readDone (the channel is made anew when the next loop starts).
ReadLoopFailed == readDone /\ connPc # "register"

\* C18: once the read loop has failed or the socket has closed, the state
\* eventually becomes not connected and not authenticated (or the process
\* has ended).
C18_ReadFailureClearsState ==
    ReadLoopFailed ~> (crashed \/ (~connected /\ ~authenticated))

\* C19: on every new socket the first message written is "register", and
\* no exception or heartbeat taken from the queue is written on a socket
\* before "registered" has been received on it.
C19_RegisterFirst ==
    [][/\ (lastWritten = "none" /\ lastWritten' # "none") => lastWritten' = "register"
       /\ lastWritten' \in {"exception", "heartbeat"} => acked']_vars

C19_Witness ==
    /\ acked
    /\ lastWritten \in {"exception", "heartbeat"}
    /\ connPc = "loop"

NodeDepth(n) == Len(n.path)
IsPlaceholder(n) == n.Value = "<max depth exceeded>"

\* C21: no Variable lies deeper than maxDepth+1 below the capture root, no
\* "max depth" placeholder lies at a depth d <= maxDepth, and a Variable at
\* depth maxDepth+1 has no children.
C21_DepthBounded ==
    \A n \in cvNodes :
        /\ NodeDepth(n) <= cvMaxDepth + 1
        /\ IsPlaceholder(n) => NodeDepth(n) > cvMaxDepth
        /\ NodeDepth(n) = cvMaxDepth + 1 => n.Children = 0

C21_Witness ==
    /\ cvStack = <<>>
    /\ cvMaxDepth = 1
    /\ \E n \in cvNodes : NodeDepth(n) = 2 /\ IsPlaceholder(n)
    /\ \E n \in cvNodes : NodeDepth(n) = 1 /\ n.Children = 2

\* C22: every capture terminates: eventually no call of captureValue is
\* left to be made.
C22_CaptureTerminates == <>(cvStack = <<>>)

\* C27: every value reached at depth maxDepth+1, the nil value included, is
\* returned as a Variable without children whose IsTruncated is set.
C27_TruncatedAtLimit ==
    \A n \in cvNodes :
        NodeDepth(n) = cvMaxDepth + 1 => (n.Children = 0 /\ n.IsTruncated)

\* What the claim lets a fingerprint depend on: the name of the error's
\* type (the declared type, whether the error holds it or a pointer to it;
\* "error" for a nil error) and the (method, line) pairs of the first
\* FingerprintFrames non-native frames, in order.
ErrorTypeName(t) == IF t = NilError THEN <<"error">> ELSE <<t.pkg, t.name>>
NonNative(stackTrace) == SelectSeq(stackTrace, LAMBDA f : ~f.IsNative)
FirstFrames(stackTrace) ==
    LET nn == NonNative(stackTrace)
    IN [i \in 1..Min(Len(nn), FingerprintFrames) |->
           <<nn[i].MethodName, nn[i].LineNumber>>]
FingerprintInputs(t, stackTrace) == <<ErrorTypeName(t), FirstFrames(stackTrace)>>

\* C23: a capture and any other capture have the same fingerprint if they
\* agree on the type name and on the (method, line) pairs of the first
\* FingerprintFrames non-native frames, and hash different keys if they
\* differ in one of them.
C23_FingerprintDependsOnlyOn ==
    fpOut # NoFingerprint =>
        \A t \in ErrorTypes, st \in StackTraces :
            /\ FingerprintInputs(t, st) = FingerprintInputs(fpType, fpStack)
                  => calculateFingerprint(t, st) = fpOut
            /\ FingerprintInputs(t, st) # FingerprintInputs(fpType, fpStack)
                  => FingerprintKey(t, st) # fpOut.sha256

C23_Witness ==
    /\ fpOut # NoFingerprint
    /\ Len(fpStack) = 3
    /\ fpStack[1].IsNative
    /\ ~fpStack[2].IsNative /\ ~fpStack[3].IsNative
    /\ fpStack[2].MethodName = <<"FetchOrder", "4">> /\ fpStack[2].LineNumber = 2
    /\ fpType # NilError

\* The literal string OrderNotFoundError:FetchOrder:42
ExampleKey == <<"OrderNotFoundError", ":", "FetchOrder", ":", "4", "2">>

\* C24: for an error of type OrderNotFoundError whose first non-native frame
\* is FetchOrder at line 42, the fingerprint is the 16 hex characters of the
\* digest of exactly the string OrderNotFoundError:FetchOrder:42.
C24_ExampleFingerprint ==
    (/\ fpOut # NoFingerprint
     /\ fpType # NilError
     /\ fpType.name = "OrderNotFoundError"
     /\ Len(NonNative(fpStack)) >= 1
     /\ NonNative(fpStack)[1].MethodName = <<"FetchOrder">>
     /\ NonNative(fpStack)[1].LineNumber = 42)
        => fpOut = [sha256 |-> ExampleKey, hexChars |-> 16]

\* C25: CaptureError never raises: no call ends in a panic, whatever the
\* error (nil, or with nil entries in its cause chain) and the context.
C25_CaptureNeverRaises == ceOut # "panic"

\* C26: a rejected trigger changes nothing it should not.  No step of Hit
\* before the limiter has accepted changes a hit count or forwards; the
\* lookup and the ceiling test leave the limiter alone; so a trigger that
\* returns at the ceiling test has changed neither hit counts nor limiter,
\* and one that the limiter rejects has changed no hit count.  (A trigger
\* on an unregistered id returns at the lookup, which changes nothing.)
C26_RejectedTriggerChangesNothing ==
    [][\A h \in Hitters :
          /\ (hpc[h] \in {"idle", "check", "rlwin", "rlcmp"} /\ hpc'[h] # hpc[h])
                => (sent' = sent /\ bpHitCount' = bpHitCount)
          /\ (hpc[h] \in {"idle", "check"} /\ hpc'[h] # hpc[h])
                => (captureCount' = captureCount
                    /\ captureWindowStart' = captureWindowStart)
          /\ (hpc[h] \in {"check", "rlcmp"} /\ hpc'[h] = "idle")
                => hbp'[h] = 0]_vars

C26_Witness ==
    /\ limited
    /\ \A h \in Hitters : hpc[h] = "idle"
    /\ Len(sent) = 2
    /\ \E r \in Refs : r < nextRef /\ bpHitCount[r] = 2 /\ bpMaxHits[r] > 2

\* C28: under concurrent triggers no update of the rate limiter's counter is
\* lost: every increment stores one more than the counter holds at the
\* moment of the store.
C28_NoLostLimiterUpdate ==
    [][\A h \in Hitters :
          (hpc[h] = "rlstore" /\ hpc'[h] = "inc") => captureCount' = captureCount + 1]_vars

\* C29: in every reachable state the connection is flagged authenticated
\* only if it is flagged connected.
C29_AuthenticatedImpliesConnected == authenticated => connected

\* C30: the read loop never reads from the socket handle after Disconnect
\* has cleared it: no step of the loop is a ReadMessage call on a nil
\* socket.
C30_NoReadOnClearedSocket == [][~(ReadLoad /\ conn = NilConn)]_vars

\* C31: Disconnect can be invoked again on a connection whose shutdown
\* signal is already closed (by Stop or by handleError after an
\* authentication rejection) without faulting.
C31_DisconnectTwiceSafe ==
    [][(done /\ (StopCloseDone \/ ReadDisconnectClose)) => ~crashed']_vars

\* A call of Disconnect has returned: Stop's call, or the call made by
\* handleError on the read goroutine.
DisconnectReturned ==
    \/ stopPc = "stopped"
    \/ (fatalSeen /\ readPc \notin {"recv", "disc1", "disc2"})

\* C32: once Disconnect has returned, the connection is not connected, not
\* authenticated and holds no socket, in every later state.
C32_StaysDisconnected ==
    DisconnectReturned => (~connected /\ ~authenticated /\ conn = NilConn)

\* C33: a payload is forwarded to the sink only for an id that is
\* registered at that moment: after RemoveBreakpoint(id) has returned and
\* until a later SetBreakpoint(id), nothing is forwarded for id.
C33_NoForwardAfterRemove ==
    [][Len(sent') > Len(sent) => breakpoints[sent'[Len(sent')].id] # 0]_vars

\* The connection is in the state Authenticated, and the message loop is
\* running: it has not returned, and neither the shutdown signal nor the
\* read goroutine's exit is waiting for it.
Authenticated == conn # NilConn /\ connected /\ authenticated
LoopRunning ==
    connPc \in {"loop", "hb", "write"} /\ ~crashed /\ ~done /\ ~readDone
InQueue(m) == \E i \in 1..Len(messageQueue) : messageQueue[i].id = m

\* C34: while the connection stays Authenticated and the message loop keeps
\* running, every message in the outbound queue eventually leaves it: the
\* loop takes it to write it, unless drop-oldest evicted it first.
C34_QueueDrains ==
    \A m \in 1..MaxMsgs :
        InQueue(m) ~> (~InQueue(m) \/ ~(Authenticated /\ LoopRunning))

====
